---- MODULE Spec2Model ----
(***************************************************************************)
(* A model of extract_roms.py: the smart extraction of an archive          *)
(* (smart_extract_rom), the per-item pipeline (process_rom) and the batch  *)
(* runner over a thread pool (extract_roms).                               *)
(*                                                                         *)
(* A Python str is modelled as a sequence of one-character strings, so     *)
(* that split, rfind, slicing, endswith and os.path.commonprefix are       *)
(* computed character by character, as the code computes them.  The        *)
(* filesystem is the set of regular files and the set of directories,      *)
(* each an absolute path.                                                  *)
(***************************************************************************)
EXTENDS Integers, Sequences, FiniteSets, TLC

VARIABLES
    fsFiles,      \* the regular files on disk (absolute paths)
    fsDirs,       \* the directories on disk (absolute paths)
    files,        \* extract_roms: the list of scheduled items (line 275)
    archive,      \* per item: what its archive backend lists, and its fault
    ignore,       \* extract_roms argument: member base names to skip
    clean_up,     \* extract_roms argument
    max_workers,  \* extract_roms argument
    task,         \* per item: the locals of its process_rom call
    main,         \* the locals of extract_roms
    removed,      \* history: per item, the paths its pipeline os.remove'd
    files_default,\* the list object that is the default of parameter files
    call          \* the running call of extract_roms: its number and arguments

vars == <<fsFiles, fsDirs, files, archive, ignore, clean_up, max_workers,
          task, main, removed, files_default, call>>

----------------------------------------------------------------------------
(* Bounds of the model *)

\* the largest number of members an archive of a one-item batch lists
MaxMembers == 3
\* the largest number of items in a batch
MaxItems == 2
\* the largest worker count
MaxWorkers == 2
\* the largest number of calls of extract_roms in one process
MaxCalls == 2

----------------------------------------------------------------------------
(* Python str and list operations *)

Max(S) == CHOOSE x \in S : \A y \in S : y <= x
Min(S) == CHOOSE x \in S : \A y \in S : x <= y

\* the value None
None == << "None" >>

\* Python truthiness of a str-or-None value
Truthy(v) == v # None /\ v # << >>

\* s[a:b] for 0 <= a
Slice(s, a, b) == SubSeq(s, a + 1, IF b > Len(s) THEN Len(s) ELSE b)

\* s[a:]
SliceFrom(s, a) == SubSeq(s, a + 1, Len(s))

\* s.endswith(suffix)
endswith(s, suffix) ==
    /\ Len(s) >= Len(suffix)
    /\ SubSeq(s, Len(s) - Len(suffix) + 1, Len(s)) = suffix

\* s.startswith(prefix)
startswith(s, prefix) ==
    /\ Len(s) >= Len(prefix)
    /\ SubSeq(s, 1, Len(prefix)) = prefix

\* s.rfind(c) for a one-character c: the last index of c (from 0), or -1
rfind(s, c) ==
    LET I == {i \in 1..Len(s) : s[i] = c}
    IN  IF I = {} THEN -1 ELSE Max(I) - 1

\* c in s, for a one-character c
contains(s, c) == \E i \in 1..Len(s) : s[i] = c

\* s.split(c) for a one-character c
RECURSIVE split(_, _)
split(s, c) ==
    LET I == {i \in 1..Len(s) : s[i] = c}
    IN  IF I = {} THEN << s >>
        ELSE << SubSeq(s, 1, Min(I) - 1) >> \o split(SubSeq(s, Min(I) + 1, Len(s)), c)

\* c.join(parts) for a one-character c
RECURSIVE join(_, _)
join(c, parts) ==
    IF Len(parts) = 0 THEN << >>
    ELSE IF Len(parts) = 1 THEN parts[1]
    ELSE parts[1] \o << c >> \o join(c, Tail(parts))

\* list[-1]
Last(list) == list[Len(list)]

\* x in list
InList(x, list) == \E i \in 1..Len(list) : list[i] = x

\* os.path.commonprefix(m): the longest string that every element starts with
commonprefix(m) ==
    IF Len(m) = 0 THEN << >>
    ELSE LET s1 == m[1]
             K  == {k \in 0..Len(s1) :
                       \A i \in 1..Len(m) : startswith(m[i], SubSeq(s1, 1, k))}
         IN  SubSeq(s1, 1, Max(K))

\* os.path.join(a, b) on POSIX
os_path_join(a, b) ==
    IF startswith(b, << "/" >>) THEN b
    ELSE IF a = << >> \/ endswith(a, << "/" >>) THEN a \o b
    ELSE a \o << "/" >> \o b

\* os.path.basename(p)
os_path_basename(p) == SliceFrom(p, rfind(p, "/") + 1)

\* head.rstrip("/"), as os.path.dirname strips its result
RECURSIVE rstripSep(_)
rstripSep(s) ==
    IF Len(s) > 0 /\ s[Len(s)] = "/" THEN rstripSep(SubSeq(s, 1, Len(s) - 1)) ELSE s

\* os.path.dirname(p) on POSIX
os_path_dirname(p) ==
    LET head == Slice(p, 0, rfind(p, "/") + 1)
    IN  IF head # << >> /\ \E i \in 1..Len(head) : head[i] # "/"
        THEN rstripSep(head) ELSE head

----------------------------------------------------------------------------
(* The program's tables *)

s_7z    == << "7", "z" >>
s_zip   == << "z", "i", "p" >>
s_rar   == << "r", "a", "r" >>
s_gz    == << "g", "z" >>
s_iso   == << "i", "s", "o" >>
s_zar   == << "z", "a", "r" >>
s_zst   == << "z", "s", "t" >>
s_xbox360 == << "x", "b", "o", "x", "3", "6", "0" >>

\* ignore = ["Vimm's Lair.txt"]
default_ignore ==
    << << "V", "i", "m", "m", "'", "s", " ", "L", "a", "i", "r", ".", "t", "x", "t" >> >>

\* archive_types = ["7z", "zip", "rar", "gz"]
archive_types == << s_7z, s_zip, s_rar, s_gz >>

\* the keys of extract_funcs, had gz a backend like the other archive types
extract_funcs_with_gz == {s_7z, s_zip, s_rar, s_gz}

\* the keys of extract_funcs
extract_funcs == {s_7z, s_zip, s_rar}

\* the keys of compress_types; both map to compress_zstd
compress_types == {s_zar, s_zst}

\* parent_dir_compress = {"xbox360": ("iso", "zar")}
parent_dir_compress == [n \in {s_xbox360} |-> << s_iso, s_zar >>]

\* def compress_zstd(file: str): the number of parameters it accepts
compress_zstd_params == 1

\* compress_types[to_ext](f, to_ext): the number of arguments the call passes
compress_call_args == 2

----------------------------------------------------------------------------
(* The filesystem.  Every operation is an operator from the filesystem     *)
(* (F: files, D: directories) to [ok, files, dirs]; ok = FALSE is OSError  *)
(* and leaves the filesystem as it was.                                    *)

\* the path the kernel resolves: trailing separators dropped
Norm(p) == IF Len(p) > 1 THEN rstripSep(p) ELSE p

\* the directories above p
Ancestors(p) == {SubSeq(p, 1, i - 1) : i \in {j \in 2..Len(p) : p[j] = "/"}}

\* p lies inside directory d
Under(p, d) == startswith(p, d \o << "/" >>)

FsResult(ok, F, D) == [ok |-> ok, files |-> F, dirs |-> D]

\* os.path.isdir(p)
os_path_isdir(D, p) == Norm(p) \in D

\* what a backend's extract(targets, path) leaves on disk: each target as a
\* file under path, with the directories of its member path created
backend_extract(F, D, targets, path) ==
    LET new == {os_path_join(path, targets[j]) : j \in 1..Len(targets)}
    IN  FsResult(TRUE, F \cup new,
                 D \cup UNION {Ancestors(n) \ {<< >>} : n \in new})

\* os.makedirs(p, exist_ok=True)
os_makedirs(F, D, p) ==
    IF Norm(p) \in F \/ \E a \in Ancestors(Norm(p)) : a \in F
    THEN FsResult(FALSE, F, D)
    ELSE FsResult(TRUE, F, D \cup {Norm(p)} \cup (Ancestors(Norm(p)) \ {<< >>}))

\* os.rename(src, dst) of a regular file: fails when src is missing, when dst
\* names a directory (an existing one, or by a trailing separator), or when
\* the directory of dst is missing
os_rename(F, D, src, dst) ==
    IF \/ src \notin F
       \/ endswith(dst, << "/" >>)
       \/ Norm(dst) \in D
       \/ os_path_dirname(dst) \notin D
    THEN FsResult(FALSE, F, D)
    ELSE FsResult(TRUE, (F \ {src}) \cup {dst}, D)

\* os.rmdir(p): fails unless p is an existing, empty directory
os_rmdir(F, D, p) ==
    IF \/ Norm(p) \notin D
       \/ \E q \in F \cup D : Under(q, Norm(p))
    THEN FsResult(FALSE, F, D)
    ELSE FsResult(TRUE, F, D \ {Norm(p)})

\* os.remove(p): fails unless p is an existing regular file
os_remove(F, D, p) ==
    IF p \notin F THEN FsResult(FALSE, F, D)
    ELSE FsResult(TRUE, F \ {p}, D)

\* the files os.walk(top) yields, each as os.path.join(root, file)
os_walk(F, top) == {f \in F : Under(f, Norm(top))}

----------------------------------------------------------------------------
(* smart_extract_rom: the computations on member paths *)

\* the archive's base name with its extensions kept
archive_name_full(a) == os_path_basename(a)

\* archive_name = os.path.basename(archive).split(".")[0]
archive_name(a) == split(os_path_basename(a), ".")[1]

\* the directory of the archive taken to be the working directory, /l
archive_dir_cwd(a) == << "/", "l" >>

\* archive_dir = os.path.dirname(os.path.abspath(archive)), archive absolute
archive_dir(a) == os_path_dirname(a)

\* the filter without the test of the ignore list
KeepMember_no_ignore(f, ign) == ~endswith(f, << "/" >>)

\* the loop that fills extract_files (lines 53-58): whether f is appended
KeepMember(f, ign) ==
    /\ ~endswith(f, << "/" >>)
    /\ ~InList(Last(split(f, "/")), ign)

extract_files(names, ign) == SelectSeq(names, LAMBDA f : KeepMember(f, ign))

\* the common prefix of the strings, not cut back to a "/"
common_dir_prefix_raw(ef) == commonprefix(ef)

\* remove_prefix as lines 64-66 leave it
common_dir_prefix(ef) ==
    LET p == commonprefix(ef)
    IN  IF ~endswith(p, << "/" >>) THEN Slice(p, 0, rfind(p, "/") + 1) ELSE p

\* the three layouts of an archive of more than one file (lines 62-76)
Layout(ef, a) ==
    LET rp == common_dir_prefix(ef)
        parts == split(rp, "/")
    IN  IF rp = << >>
        THEN [add_prefix    |-> None,
              extract_path  |-> os_path_join(archive_dir(a), archive_name(a)),
              remove_prefix |-> None,
              common        |-> rp]
        ELSE IF ~contains(Slice(rp, 0, Len(rp) - 1), "/")
        THEN [add_prefix    |-> Slice(rp, 0, Len(rp) - 1),
              extract_path  |-> archive_dir(a),
              remove_prefix |-> None,
              common        |-> rp]
        ELSE [add_prefix    |-> None,
              extract_path  |-> archive_dir(a),
              remove_prefix |-> join("/", SubSeq(parts, 1, Len(parts) - 2)) \o << "/" >>,
              common        |-> rp]

\* to = os.path.join(extract_path, f[0 : len(remove_prefix)])
rename_to(extract_path, f, remove_prefix) ==
    os_path_join(extract_path, Slice(f, 0, Len(remove_prefix)))

\* the return value with add_prefix left out
multi_return_no_prefix(extract_path, add_prefix) == extract_path

\* the value smart_extract_rom returns for more than one file
multi_return(extract_path, add_prefix) ==
    IF Truthy(add_prefix) THEN os_path_join(extract_path, add_prefix) ELSE extract_path

\* the single file returned at its member path, not at its base name
single_return_member_path(a, f) == os_path_join(archive_dir(a), f)

\* the value smart_extract_rom returns for a single file f
single_return(a, f) == os_path_join(archive_dir(a), Last(split(f, "/")))

----------------------------------------------------------------------------
(* The inputs: archives, files and directories of a library *)

Str_x_iso == << "x", "." >> \o s_iso
Str_y_iso == << "y", "." >> \o s_iso

\* the member paths an archive of a one-item batch may list
MemberPool ==
    << Str_x_iso,
       Str_y_iso,
       << "d", "/" >>,
       << "d", "/" >> \o Str_x_iso,
       << "d", "/" >> \o Str_y_iso,
       << "d", "/", "e", "/" >> \o Str_x_iso,
       << "d", "/", "e", "/" >> \o Str_y_iso,
       << "d", "a", "/" >> \o Str_y_iso,
       default_ignore[1],
       << "d", "/" >> \o default_ignore[1],
       << "d", "/", "x" >> \o Str_y_iso >>

RECURSIVE Pick(_)
Pick(S) == IF S = {} THEN << >> ELSE << MemberPool[Min(S)] >> \o Pick(S \ {Min(S)})

Faults == {"none", "open", "data"}

Item(path, tree, dirs, names, fault) ==
    [path |-> path, tree |-> tree, dirs |-> dirs, names |-> names, fault |-> fault]

FileItem(path, names, fault) == Item(path, {path}, {}, names, fault)

Path_l_g_zip    == << "/", "l", "/", "g", "." >> \o s_zip
Path_xbox_g_7z  == << "/" >> \o s_xbox360 \o << "/", "g", ".", "v", "1", "." >> \o s_7z
Path_m_h_7z     == << "/", "m", "/", "h", "." >> \o s_7z
Path_xbox_k_iso == << "/" >> \o s_xbox360 \o << "/", "k", "." >> \o s_iso
Path_n_p_txt    == << "/", "n", "/", "p", ".", "t", "x", "t" >>
Path_o_q_rar    == << "/", "o", "/", "q", "." >> \o s_rar
Path_q_w_gz     == << "/", "q", "/", "w", "." >> \o s_gz
Path_xbox_t     == << "/" >> \o s_xbox360 \o << "/", "t" >>
Path_xbox_u     == << "/" >> \o s_xbox360 \o << "/", "u" >>
Path_xbox_j_zst == << "/" >> \o s_xbox360 \o << "/", "j", "." >> \o s_iso \o << "." >> \o s_zst

\* one archive with any members of the pool, clean or faulty
RichItems ==
    {FileItem(a, Pick(S), f) :
        a \in {Path_l_g_zip, Path_xbox_g_7z},
        S \in {T \in SUBSET (1..Len(MemberPool)) : Cardinality(T) <= MaxMembers},
        f \in Faults}

\* the items of batches of several: each in a place of its own
Catalogue ==
    << FileItem(Path_l_g_zip, << Str_x_iso >>, "none"),
       FileItem(Path_m_h_7z, << MemberPool[4], MemberPool[5] >>, "open"),
       FileItem(Path_xbox_k_iso, << >>, "none"),
       FileItem(Path_n_p_txt, << >>, "none"),
       FileItem(Path_o_q_rar, << MemberPool[6] >>, "none"),
       FileItem(Path_q_w_gz, << >>, "none"),
       Item(Path_xbox_t,
            {Path_xbox_t \o << "/" >> \o Str_x_iso,
             Path_xbox_t \o << "/", "s", "/" >> \o Str_y_iso,
             Path_xbox_t \o << "/", "n" >>},
            {Path_xbox_t, Path_xbox_t \o << "/", "s" >>}, << >>, "none"),
       Item(Path_xbox_u, {Path_xbox_u \o << "/", "n" >>}, {Path_xbox_u}, << >>, "none"),
       FileItem(Path_xbox_j_zst, << >>, "none") >>

RECURSIVE PickItems(_)
PickItems(S) == IF S = {} THEN << >> ELSE << Catalogue[Min(S)] >> \o PickItems(S \ {Min(S)})

Batches ==
    {<< r >> : r \in RichItems}
    \cup {PickItems(S) : S \in {T \in SUBSET (1..Len(Catalogue)) :
                                   Cardinality(T) >= 1 /\ Cardinality(T) <= MaxItems}}

----------------------------------------------------------------------------
(* The state after extract_roms has built its list of items *)

NewTask(f) ==
    [pc |-> "pending", input |-> f, rom |-> f, is_dir |-> FALSE,
     extract_files |-> << >>, extract_path |-> None, add_prefix |-> None,
     remove_prefix |-> None, common |-> None, touched |-> {}, k |-> 0, passed |-> << >>, calls |-> 0,
     output |-> None,
     compress_files |-> << >>, compress_file |-> None,
     error |-> "", at |-> "", result |-> None, msg |-> ""]

\* the state in which extract_roms is about to submit the items of batch B
InitBatch(B) ==
        /\ files = [i \in 1..Len(B) |-> B[i].path]
        /\ archive = [i \in 1..Len(B) |-> [names |-> B[i].names, fault |-> B[i].fault]]
        /\ fsFiles = UNION {B[i].tree : i \in 1..Len(B)}
        /\ fsDirs = UNION {B[i].dirs \cup UNION {Ancestors(f) : f \in B[i].tree}
                              : i \in 1..Len(B)}
        /\ ignore \in {default_ignore, << >>}
        /\ clean_up \in BOOLEAN
        /\ max_workers \in 1..MaxWorkers
        /\ task = [i \in 1..Len(B) |-> NewTask(B[i].path)]
        /\ main = [pc |-> "submit", n |-> 0, k |-> 1, success |-> 0, reported |-> -1,
                   outcome |-> [i \in 1..Len(B) |-> "none"]]
        /\ removed = [i \in 1..Len(B) |-> {}]
        /\ files_default = << >>
        /\ call = [n |-> 1, dirs |-> << >>, omitted |-> FALSE,
                    files |-> [i \in 1..Len(B) |-> B[i].path]]

Init == \E B \in Batches : InitBatch(B)

----------------------------------------------------------------------------
(* process_rom, one action per step of an item's pipeline *)

Items == 1..Len(files)

Terminal(t) == t.pc \in {"done", "failed"}

\* the task occupies a worker thread
Running(t) == t.pc \notin {"pending", "queued", "done", "failed"}

\* the exception is caught and logged inside process_rom, which goes on to
\* its report
Raise_Logged(t, error) == [t EXCEPT !.pc = "report", !.error = error, !.at = t.pc]

\* an exception leaves process_rom: the future holds it
Raise(t, error) == [t EXCEPT !.pc = "failed", !.error = error, !.at = t.pc]

SetFs(r) == fsFiles' = r.files /\ fsDirs' = r.dirs

\* a worker takes the oldest queued item and runs lines 186-195: the item's
\* extension decides whether it is an archive, and whether a backend exists
StartRom(i) ==
    /\ task[i].pc = "queued"
    /\ \A j \in 1..(i - 1) : task[j].pc # "queued"
    /\ Cardinality({j \in Items : Running(task[j])}) < max_workers
    /\ LET rom == task[i].rom
           ext == Last(split(rom, "."))
           t0  == [task[i] EXCEPT !.pc = "classify",
                                  !.is_dir = os_path_isdir(fsDirs, rom)]
       IN  task' = [task EXCEPT ![i] =
               IF InList(ext, archive_types)
               THEN IF ext \notin extract_funcs
                    THEN Raise(t0, "ValueError")
                    ELSE [t0 EXCEPT !.pc = "open"]
               ELSE [t0 EXCEPT !.pc = "policy"]]
    /\ UNCHANGED <<fsFiles, fsDirs, files, archive, ignore, clean_up, max_workers,
                   main, removed, files_default, call>>

\* extract_zip / extract_7z / extract_rar open the archive and list it, and
\* smart_extract_rom filters the members and decides the layout (lines 48-76,
\* 93-94); an archive with no member left is indexed at [0]
OpenArchive(i) ==
    /\ task[i].pc = "open"
    /\ LET t  == task[i]
           ef == extract_files(archive[i].names, ignore)
           lay == Layout(ef, t.rom)
       IN  task' = [task EXCEPT ![i] =
               IF archive[i].fault = "open" \/ t.rom \notin fsFiles
               THEN Raise(t, "ExtractionFailed")
               ELSE IF Len(ef) > 1
               THEN [t EXCEPT !.pc = "extract", !.extract_files = ef,
                              !.extract_path = lay.extract_path,
                              !.add_prefix = lay.add_prefix,
                              !.remove_prefix = lay.remove_prefix,
                              !.common = lay.common]
               ELSE IF Len(ef) = 0
               THEN Raise([t EXCEPT !.extract_files = ef], "IndexError")
               ELSE [t EXCEPT !.pc = "extract", !.extract_files = ef,
                              !.extract_path = archive_dir(t.rom)]]
    /\ UNCHANGED <<fsFiles, fsDirs, files, archive, ignore, clean_up, max_workers,
                   main, removed, files_default, call>>

\* whether a rename pass follows the backend's extraction
NeedsRename(t) ==
    IF Len(t.extract_files) > 1 THEN Truthy(t.remove_prefix)
    ELSE contains(t.extract_files[1], "/")

\* the files a backend's extract(targets, path) writes
Written(path, targets) == {os_path_join(path, targets[j]) : j \in 1..Len(targets)}

\* extract_func(extract_files, extract_path), line 79 or line 95
BackendExtract(i) ==
    /\ task[i].pc = "extract"
    /\ LET t == task[i]
           r == backend_extract(fsFiles, fsDirs, t.extract_files, t.extract_path)
       IN  IF archive[i].fault = "data"
           THEN /\ task' = [task EXCEPT ![i] =
                       Raise([t EXCEPT !.calls = t.calls + 1,
                                       !.passed = t.passed \o t.extract_files],
                             "ExtractionFailed")]
                /\ UNCHANGED <<fsFiles, fsDirs>>
           ELSE /\ task' = [task EXCEPT ![i] =
                       [t EXCEPT !.pc = IF NeedsRename(t) THEN "rename" ELSE "extracted",
                                 !.k = 1,
                                 !.calls = t.calls + 1,
                                 !.passed = t.passed \o t.extract_files,
                                 !.touched = @ \cup Written(t.extract_path, t.extract_files)
                                               \cup (r.dirs \ fsDirs)]]
                /\ SetFs(r)
    /\ UNCHANGED <<files, archive, ignore, clean_up, max_workers, main, removed, files_default, call>>

\* one pass of the loop of lines 80-84, or the rename of lines 97-100
RenameStep(i) ==
    /\ task[i].pc = "rename"
    /\ LET t == task[i]
           f == t.extract_files[t.k]
           multi == Len(t.extract_files) > 1
           to == IF multi THEN rename_to(t.extract_path, f, t.remove_prefix)
                 ELSE os_path_join(t.extract_path, Last(split(f, "/")))
           m == IF multi THEN os_makedirs(fsFiles, fsDirs, os_path_dirname(to))
                ELSE FsResult(TRUE, fsFiles, fsDirs)
           r == IF m.ok THEN os_rename(m.files, m.dirs, os_path_join(t.extract_path, f), to)
                ELSE m
       IN  /\ SetFs(r)
           /\ task' = [task EXCEPT ![i] =
                  LET u == [t EXCEPT !.touched =
                               @ \cup (m.dirs \ fsDirs)
                                 \cup IF r.ok THEN {os_path_join(t.extract_path, f), to}
                                      ELSE {}]
                  IN  IF ~r.ok THEN Raise(u, "OSError")
                      ELSE IF t.k < Len(t.extract_files) THEN [u EXCEPT !.k = t.k + 1]
                      ELSE [u EXCEPT !.pc = "rmdir"]]
    /\ UNCHANGED <<files, archive, ignore, clean_up, max_workers, main, removed, files_default, call>>

\* the os.rmdir of line 86 or of line 101
RmdirStep(i) ==
    /\ task[i].pc = "rmdir"
    /\ LET t == task[i]
           top == IF Len(t.extract_files) > 1 THEN split(t.remove_prefix, "/")[1]
                  ELSE split(t.extract_files[1], "/")[1]
           r == os_rmdir(fsFiles, fsDirs, os_path_join(t.extract_path, top))
       IN  /\ SetFs(r)
           /\ task' = [task EXCEPT ![i] =
                  IF ~r.ok THEN Raise(t, "OSError")
                  ELSE [t EXCEPT !.pc = "extracted",
                                 !.touched = @ \cup (fsDirs \ r.dirs)]]
    /\ UNCHANGED <<files, archive, ignore, clean_up, max_workers, main, removed, files_default, call>>

\* the archive is removed whether or not clean_up is set
cleanup_archive_always(F, D, rom, cu) == os_remove(F, D, rom)

\* if clean_up: os.remove(rom), lines 199-200
cleanup_archive(F, D, rom, cu) ==
    IF cu THEN os_remove(F, D, rom) ELSE FsResult(TRUE, F, D)

\* smart_extract_rom returns (line 89 or 103) and process_rom goes on with
\* lines 199-205: the archive is removed under clean_up, rom is the result
Extracted(i) ==
    /\ task[i].pc = "extracted"
    /\ LET t == task[i]
           out == IF Len(t.extract_files) > 1
                  THEN multi_return(t.extract_path, t.add_prefix)
                  ELSE single_return(t.rom, t.extract_files[1])
           r == cleanup_archive(fsFiles, fsDirs, t.rom, clean_up)
       IN  /\ SetFs(r)
           /\ removed' = IF t.rom \in fsFiles /\ t.rom \notin r.files
                         THEN [removed EXCEPT ![i] = @ \cup {t.rom}] ELSE removed
           /\ task' = [task EXCEPT ![i] =
                  IF ~r.ok THEN Raise(t, "OSError")
                  ELSE [t EXCEPT !.pc = "policy", !.rom = out, !.output = out,
                                 !.is_dir = os_path_isdir(r.dirs, out),
                                 !.touched = @ \cup (fsFiles \ r.files)]]
    /\ UNCHANGED <<files, archive, ignore, clean_up, max_workers, main, files_default, call>>

----------------------------------------------------------------------------
(* process_rom: the compression stage and the report *)

\* every order in which a walk may yield the files of S
Orders(S) ==
    {o \in [1..Cardinality(S) -> S] : \A a, b \in 1..Cardinality(S) : a # b => o[a] # o[b]}

\* parent_dir_name = os.path.basename(os.path.dirname(os.path.abspath(rom)))
parent_dir_name(rom) == os_path_basename(os_path_dirname(Norm(rom)))

\* every file under rom, whatever its extension
walk_candidates_any_ext(F, rom, from_ext) == os_walk(F, rom)

\* the files of lines 216-219: those under rom whose name ends in "." + from_ext
walk_candidates(F, rom, from_ext) ==
    {f \in os_walk(F, rom) : endswith(os_path_basename(f), << "." >> \o from_ext)}

\* lines 210-221: the policy of the parent directory selects the candidates;
\* without a policy, or without a candidate, the report follows (the loop of
\* line 223 has nothing to run and line 235 changes nothing)
PolicyCheck(i) ==
    /\ task[i].pc = "policy"
    /\ LET t == task[i]
           name == parent_dir_name(t.rom)
       IN  IF name \in DOMAIN parent_dir_compress
           THEN \E cf \in IF t.is_dir
                          THEN Orders(walk_candidates(fsFiles, t.rom,
                                                      parent_dir_compress[name][1]))
                          ELSE {<< t.rom >>} :
                    task' = [task EXCEPT ![i] =
                        [t EXCEPT !.pc = IF Len(cf) = 0 THEN "report" ELSE "compress",
                                  !.compress_files = cf, !.k = 1]]
           ELSE task' = [task EXCEPT ![i] = [t EXCEPT !.pc = "report"]]
    /\ UNCHANGED <<fsFiles, fsDirs, files, archive, ignore, clean_up, max_workers,
                   main, removed, files_default, call>>

\* compress_zstd(file): reads file, writes file + ".zst" and returns its path
compress_zstd(F, D, file) ==
    IF file \notin F
    THEN [ok |-> FALSE, error |-> "OSError", files |-> F, dirs |-> D, output |-> None]
    ELSE [ok |-> TRUE, error |-> "", files |-> F \cup {file \o << "." >> \o s_zst},
          dirs |-> D, output |-> file \o << "." >> \o s_zst]

\* the same iteration with the source removed before the compress call
compress_iteration_remove_first(F, D, f, to_ext, cu) ==
    LET F1 == IF cu THEN F \ {f} ELSE F
    IN  IF compress_call_args # compress_zstd_params
        THEN [ok |-> FALSE, error |-> "TypeError", files |-> F1, dirs |-> D,
              output |-> None]
        ELSE compress_zstd(F1, D, f)

\* one pass of lines 225-229: compress_types[to_ext](f, to_ext), then the
\* os.remove of the source under clean_up.  The call passes two arguments to
\* a function of one parameter
compress_iteration(F, D, f, to_ext, cu) ==
    IF to_ext \notin compress_types
    THEN [ok |-> FALSE, error |-> "KeyError", files |-> F, dirs |-> D, output |-> None]
    ELSE IF compress_call_args # compress_zstd_params
    THEN [ok |-> FALSE, error |-> "TypeError", files |-> F, dirs |-> D, output |-> None]
    ELSE LET c == compress_zstd(F, D, f)
         IN  IF c.ok /\ cu THEN [c EXCEPT !.files = c.files \ {f}] ELSE c

\* one pass of the loop of lines 223-233 and, after the last, lines 235-236
CompressStep(i) ==
    /\ task[i].pc = "compress"
    /\ LET t == task[i]
           f == t.compress_files[t.k]
           to_ext == parent_dir_compress[parent_dir_name(t.rom)][2]
           c == compress_iteration(fsFiles, fsDirs, f, to_ext, clean_up)
       IN  /\ fsFiles' = c.files
           /\ fsDirs' = c.dirs
           /\ removed' = IF f \in fsFiles /\ f \notin c.files
                         THEN [removed EXCEPT ![i] = @ \cup {f}] ELSE removed
           /\ task' = [task EXCEPT ![i] =
                  LET u == [t EXCEPT !.touched = @ \cup (fsFiles \ c.files)
                                                    \cup (c.files \ fsFiles)]
                  IN  IF ~c.ok THEN Raise(u, c.error)
                      ELSE IF t.k < Len(t.compress_files)
                      THEN [u EXCEPT !.k = t.k + 1, !.compress_file = c.output]
                      ELSE [u EXCEPT !.pc = "report", !.compress_file = c.output,
                                     !.rom = IF Len(t.compress_files) = 1
                                             THEN c.output ELSE t.rom]]
    /\ UNCHANGED <<files, archive, ignore, clean_up, max_workers, main, files_default, call>>

\* lines 241-246
Report(i) ==
    /\ task[i].pc = "report"
    /\ task' = [task EXCEPT ![i] =
           [task[i] EXCEPT !.pc = "done",
                           !.msg = IF task[i].input = task[i].rom
                                   THEN "No changes made" ELSE "Prepared rom",
                           !.result = << task[i].input, task[i].rom >>]]
    /\ UNCHANGED <<fsFiles, fsDirs, files, archive, ignore, clean_up, max_workers,
                   main, removed, files_default, call>>

----------------------------------------------------------------------------
(* extract_roms: submit every item, collect every future, decide *)

\* executor.submit(process_rom, f, ignore, clean_up), line 276
Submit ==
    /\ main.pc = "submit"
    /\ main.n < Len(files)
    /\ task' = [task EXCEPT ![main.n + 1] = [@ EXCEPT !.pc = "queued"]]
    /\ main' = [main EXCEPT !.n = main.n + 1,
                            !.pc = IF main.n + 1 = Len(files) THEN "collect" ELSE "submit"]
    /\ UNCHANGED <<fsFiles, fsDirs, files, archive, ignore, clean_up, max_workers,
                   removed, files_default, call>>

\* a failed future ends the collection: the exception leaves the loop
Collect_StopAtFailure ==
    /\ main.pc = "collect"
    /\ main.k <= Len(files)
    /\ Terminal(task[main.k])
    /\ main' = IF task[main.k].pc = "done"
               THEN [main EXCEPT !.success = main.success + 1, !.k = main.k + 1,
                                 !.outcome[main.k] = "success"]
               ELSE [main EXCEPT !.pc = "raised", !.outcome[main.k] = "failure"]
    /\ UNCHANGED <<fsFiles, fsDirs, files, archive, ignore, clean_up, max_workers,
                   task, removed, files_default, call>>

\* one pass of the loop of lines 279-284: future.result() waits for the item,
\* counts a success, or catches and logs the exception
Collect ==
    /\ main.pc = "collect"
    /\ main.k <= Len(files)
    /\ Terminal(task[main.k])
    /\ main' = IF task[main.k].pc = "done"
               THEN [main EXCEPT !.success = main.success + 1, !.k = main.k + 1,
                                 !.outcome[main.k] = "success"]
               ELSE [main EXCEPT !.k = main.k + 1, !.outcome[main.k] = "failure"]
    /\ UNCHANGED <<fsFiles, fsDirs, files, archive, ignore, clean_up, max_workers,
                   task, removed, files_default, call>>

\* the batch fails as soon as one item failed
Decide_AnyFailure ==
    /\ main.pc = "collect"
    /\ main.k > Len(files)
    /\ main' = IF main.success < Len(files)
               THEN [main EXCEPT !.pc = "raised"]
               ELSE [main EXCEPT !.pc = "returned", !.reported = main.success]
    /\ UNCHANGED <<fsFiles, fsDirs, files, archive, ignore, clean_up, max_workers,
                   task, removed, files_default, call>>

\* lines 286-289, after the executor's with block has ended
Decide ==
    /\ main.pc = "collect"
    /\ main.k > Len(files)
    /\ main' = IF main.success = 0
               THEN [main EXCEPT !.pc = "raised"]
               ELSE [main EXCEPT !.pc = "returned", !.reported = main.success]
    /\ UNCHANGED <<fsFiles, fsDirs, files, archive, ignore, clean_up, max_workers,
                   task, removed, files_default, call>>

----------------------------------------------------------------------------

Next ==
    \/ Submit
    \/ Collect
    \/ Decide
    \/ \E i \in Items : StartRom(i)
    \/ \E i \in Items : OpenArchive(i)
    \/ \E i \in Items : BackendExtract(i)
    \/ \E i \in Items : RenameStep(i)
    \/ \E i \in Items : RmdirStep(i)
    \/ \E i \in Items : Extracted(i)
    \/ \E i \in Items : PolicyCheck(i)
    \/ \E i \in Items : CompressStep(i)
    \/ \E i \in Items : Report(i)

Spec == Init /\ [][Next]_vars

----------------------------------------------------------------------------
(* Vocabulary of the properties *)

Decided == main.pc \in {"raised", "returned"}

Succeeded(i) == task[i].pc = "done"
Failed(i) == task[i].pc = "failed"

\* the item is an archive with a backend
IsArchive(i) == Last(split(files[i], ".")) \in extract_funcs

\* the steps of process_rom that belong to the extraction call
ExtractStages == {"classify", "open", "extract", "rename", "rmdir"}

FailedInExtraction(i) == Failed(i) /\ task[i].at \in ExtractStages

\* the extraction call of item i has returned a path
ExtractionReturned(i) == task[i].output # None

Range(seq) == {seq[j] : j \in 1..Len(seq)}

----------------------------------------------------------------------------
(* C1: extract_roms raises its batch-level error if and only if no item's  *)
(* process_rom returned without error; otherwise it completes and the      *)
(* count it reports is the number of items that succeeded.                 *)
C1_BatchFailsIffNoSuccess ==
    Decided =>
        LET succeeded == Cardinality({i \in Items : Succeeded(i)})
        IN  /\ Len(files) >= 1
            /\ (main.pc = "raised") <=> (succeeded = 0)
            /\ (main.pc = "returned") => (main.reported = succeeded)

\* a batch that ended normally although one of its items failed
C1_Witness ==
    /\ main.pc = "returned"
    /\ \E i, j \in Items : Failed(i) /\ Succeeded(j)

(* C2: a failed item never keeps another item from being started and run  *)
(* to its own outcome: a failed item holds no worker, before the decision  *)
(* the runner or some item can always take a step, and the decision is     *)
(* made only when every submitted item has ended and has been given        *)
(* exactly one outcome, success or caught-and-logged failure.              *)
C2_FailureIsolated ==
    /\ ~Decided =>
          \/ main.pc = "submit" /\ main.n < Len(files)
          \/ \E i \in Items : Running(task[i])
          \/ \E i \in Items :
                /\ task[i].pc = "queued"
                /\ Cardinality({j \in Items : ~Terminal(task[j])
                                               /\ task[j].pc \notin {"pending", "queued"}})
                      < max_workers
          \/ main.pc = "collect" /\ (main.k > Len(files) \/ Terminal(task[main.k]))
    /\ \A i \in Items :
          main.outcome[i] # "none" =>
              /\ Terminal(task[i])
              /\ main.outcome[i] = IF Succeeded(i) THEN "success" ELSE "failure"
    /\ Decided => \A i \in Items : Terminal(task[i]) /\ main.outcome[i] # "none"

\* with one worker, an item succeeded after an earlier item had failed
C2_Witness ==
    /\ Decided
    /\ max_workers = 1
    /\ \E i, j \in Items : i < j /\ Failed(i) /\ Succeeded(j)

(* C3: a candidate of the compress stage has been deleted only under       *)
(* clean_up and with its compressed output on disk; a candidate whose      *)
(* compress call failed is still on disk.                                  *)
C3_SourceKeptUntilCompressed ==
    \A i \in Items :
        /\ \A f \in removed[i] \cap Range(task[i].compress_files) :
              clean_up /\ (f \o << "." >> \o s_zst) \in fsFiles
        /\ \A f \in Range(task[i].compress_files) :
              f \notin fsFiles => f \in removed[i]
        /\ (Failed(i) /\ task[i].at = "compress") =>
              task[i].compress_files[task[i].k] \in fsFiles

\* under clean_up, the compress call of a candidate failed
C3_Witness ==
    \E i \in Items :
        /\ clean_up
        /\ Failed(i)
        /\ task[i].at = "compress"
        /\ task[i].compress_files[task[i].k] \in fsFiles

(* C4: the archive is deleted only under clean_up and only after the       *)
(* extraction call has returned; when extraction fails the archive is      *)
(* still there and no compression step is run for the item.                *)
C4_ArchiveKeptUntilExtracted ==
    \A i \in Items :
        IsArchive(i) =>
            /\ (files[i] \notin fsFiles \/ files[i] \in removed[i]) =>
                  clean_up /\ ExtractionReturned(i)
            /\ FailedInExtraction(i) =>
                  /\ files[i] \in fsFiles
                  /\ task[i].compress_files = << >>
                  /\ task[i].compress_file = None

\* under clean_up one archive was extracted and deleted, while the
\* extraction of another failed and left its archive in place
C4_Witness ==
    /\ clean_up
    /\ \E i, j \in Items :
          /\ IsArchive(i) /\ IsArchive(j)
          /\ files[i] \in removed[i] /\ Succeeded(i)
          /\ FailedInExtraction(j) /\ files[j] \in fsFiles

----------------------------------------------------------------------------
(* Vocabulary of the layout properties, on path segments *)

Segs(f) == split(f, "/")

BaseName(f) == Last(Segs(f))

\* the directory segments of a member path
DirSegs(f) == SubSeq(Segs(f), 1, Len(Segs(f)) - 1)

\* the longest run of leading directory segments that all members share
SharedDirs(ef) ==
    LET d1 == DirSegs(ef[1])
        K  == {k \in 0..Len(d1) :
                  \A j \in 1..Len(ef) :
                      /\ Len(DirSegs(ef[j])) >= k
                      /\ SubSeq(DirSegs(ef[j]), 1, k) = SubSeq(d1, 1, k)}
    IN  SubSeq(d1, 1, Max(K))

\* the member is a directory marker, or its base name is to be ignored
Dropped(m) == m[Len(m)] = "/" \/ \E k \in 1..Len(ignore) : ignore[k] = BaseName(m)

\* the filtered member set of item i
Filtered(i) == SelectSeq(archive[i].names, LAMBDA m : ~Dropped(m))

\* the directory that holds the archive of item i
ArchiveDir(i) == join("/", DirSegs(files[i]))

\* the path of rel inside directory dir
In(dir, rel) == dir \o << "/" >> \o rel

\* a base name cut at its first "."
TruncAtFirstDot(b) ==
    LET dots == {k \in 1..Len(b) : b[k] = "."}
    IN  IF dots = {} THEN b ELSE SubSeq(b, 1, Min(dots) - 1)

\* item i is an archive that its backend reads without fault
Sound(i) == IsArchive(i) /\ archive[i].fault = "none"

\* the extraction call of item i has just returned
JustExtracted(i) == task[i].pc = "policy" /\ ExtractionReturned(i)

\* the extraction call of item i is over: it has just returned, or it raised
ExtractionOver(i) == JustExtracted(i) \/ FailedInExtraction(i)

\* all members lie under one top-level directory, and under no deeper one
UnderOneTopDir(ef) == Len(ef) >= 1 /\ Len(SharedDirs(ef)) = 1

\* what C5 states of an item whose filtered members are ef
KeptUnderTopDir(i, ef) ==
    LET D == Segs(ef[1])[1]
    IN  /\ JustExtracted(i)
        /\ task[i].output = In(ArchiveDir(i), D)
        /\ In(ArchiveDir(i), D) \in fsDirs
        /\ \A j \in 1..Len(ef) : In(ArchiveDir(i), ef[j]) \in fsFiles

----------------------------------------------------------------------------
(* C5, as stated: for every non-empty filtered member set, a set of one    *)
(* entry included, whose members all lie under one top-level directory D,  *)
(* smart_extract_rom returns archiveDir/D and every member is on disk at   *)
(* archiveDir/<member path>, with D in place.                              *)
C5_AsStated ==
    \A i \in Items :
        (Sound(i) /\ UnderOneTopDir(Filtered(i)) /\ ExtractionOver(i)) =>
            KeptUnderTopDir(i, Filtered(i))

(* C5, amended: for every filtered member set of more than one entry whose *)
(* members all lie under one top-level directory D and under no deeper     *)
(* common directory, smart_extract_rom returns archiveDir/D and every      *)
(* member is on disk at archiveDir/<member path>, with D in place.         *)
C5_TopDirKept ==
    \A i \in Items :
        (Sound(i) /\ Len(Filtered(i)) > 1 /\ UnderOneTopDir(Filtered(i))
                  /\ ExtractionOver(i)) =>
            KeptUnderTopDir(i, Filtered(i))

\* two members under d/ were extracted, next to an ignored member
C5_Witness ==
    \E i \in Items :
        /\ Sound(i) /\ JustExtracted(i)
        /\ Len(Filtered(i)) > 1 /\ UnderOneTopDir(Filtered(i))
        /\ Len(Filtered(i)) < Len(archive[i].names)

(* C6: for every filtered member set whose common prefix spans two or more *)
(* segments, smart_extract_rom succeeds, every file is at                  *)
(* extractDir/<last prefix segment>/<path after the prefix>, no file is    *)
(* left at its nested path, and the top-level nested directory is gone.    *)
C6_FlattenedToLastSegment ==
    \A i \in Items :
        LET ef == Filtered(i)
            sd == SharedDirs(ef)
            prefix == join("/", sd) \o << "/" >>
        IN  (Sound(i) /\ Len(ef) > 1 /\ Len(sd) >= 2 /\ ExtractionOver(i)) =>
                /\ JustExtracted(i)
                /\ \A j \in 1..Len(ef) :
                      /\ In(In(ArchiveDir(i), Last(sd)), SliceFrom(ef[j], Len(prefix)))
                            \in fsFiles
                      /\ In(ArchiveDir(i), ef[j]) \notin fsFiles
                /\ In(ArchiveDir(i), sd[1]) \notin fsDirs

(* C7: for every archive whose filtered member set has exactly one entry,  *)
(* at any depth, smart_extract_rom succeeds, the file is at                *)
(* archiveDir/<base name>, which is the path returned, and no directory    *)
(* the backend created for the member remains.                             *)
C7_SingleFileAtTop ==
    \A i \in Items :
        LET ef == Filtered(i)
        IN  (Sound(i) /\ Len(ef) = 1 /\ ExtractionOver(i)) =>
                /\ JustExtracted(i)
                /\ task[i].output = In(ArchiveDir(i), BaseName(ef[1]))
                /\ In(ArchiveDir(i), BaseName(ef[1])) \in fsFiles
                /\ Len(Segs(ef[1])) >= 2 => In(ArchiveDir(i), Segs(ef[1])[1]) \notin fsDirs

C9_OnlyKeptMembersPassed ==
    \A i \in Items :
        LET names == archive[i].names
            passed == task[i].passed
        IN  /\ task[i].calls <= 1
            /\ Range(passed) \subseteq Range(names)
            /\ \A m \in Range(names) : Dropped(m) => m \notin Range(passed)
            /\ \A p \in fsFiles : Under(p, ArchiveDir(i)) =>
                  ~(\E k \in 1..Len(ignore) : ignore[k] = BaseName(p))
            /\ IsArchive(i) =>
                  \A d \in fsDirs : Under(d, ArchiveDir(i)) =>
                      \/ d = task[i].extract_path
                      \/ \E k \in 1..Len(passed) :
                            Under(In(task[i].extract_path, passed[k]), d)
            /\ task[i].calls = 1 =>
                  \A m \in Range(names) :
                      ~Dropped(m) => Cardinality({k \in 1..Len(passed) : passed[k] = m}) = 1

\* the backend was called for an archive that lists a directory marker, an
\* ignored member and a member to extract
C9_Witness ==
    \E i \in Items :
        /\ task[i].calls = 1 /\ task[i].passed # << >>
        /\ \E m \in Range(archive[i].names) : m[Len(m)] = "/"
        /\ \E m \in Range(archive[i].names) :
              \E k \in 1..Len(ignore) : ignore[k] = BaseName(m)
        /\ \E m \in Range(archive[i].names) : ~Dropped(m)

(* C10: when every member of an archive is filtered out, extraction fails  *)
(* with an explicit "no extractable members" error, before any backend     *)
(* call or filesystem change, and the item is a failed item.               *)
C10_ExplicitNoMembersError ==
    \A i \in Items :
        (/\ IsArchive(i)
         /\ archive[i].fault # "open"
         /\ Len(Filtered(i)) = 0
         /\ task[i].pc \notin {"pending", "queued", "open"}) =>
            /\ Failed(i)
            /\ task[i].error = "NoExtractableMembers"
            /\ task[i].calls = 0
            /\ files[i] \in fsFiles

----------------------------------------------------------------------------
(* Vocabulary of the properties of process_rom *)

\* the extension of the item's path, the text after its last "."
ExtOf(i) == Last(split(files[i], "."))

\* a worker has taken the item
Started(i) == task[i].pc \notin {"pending", "queued"}

(* C11: an item whose extension is gz fails with the unsupported-archive   *)
(* error at the test of its extension: no backend call, no compression     *)
(* candidate, nothing written or deleted (the filesystem of a one-item     *)
(* batch is as it was, clean_up or not), and the item is tallied as a      *)
(* failure, never as a success.                                            *)
C11_GzRejectedUntouched ==
    \A i \in Items :
        ExtOf(i) = s_gz =>
            /\ Started(i) => Failed(i) /\ task[i].error = "ValueError"
                                       /\ task[i].at = "classify"
            /\ task[i].calls = 0 /\ task[i].passed = << >>
            /\ task[i].compress_files = << >>
            /\ task[i].touched = {} /\ removed[i] = {}
            /\ task[i].result = None
            /\ files[i] \in fsFiles
            /\ Len(files) = 1 => fsFiles = {files[i]} /\ fsDirs = Ancestors(files[i])
            /\ main.outcome[i] \in {"none", "failure"}
            /\ Decided => main.outcome[i] = "failure"

\* under clean_up a gz item was rejected and tallied
C11_Witness ==
    /\ clean_up
    /\ \E i \in Items : ExtOf(i) = s_gz /\ Failed(i) /\ main.outcome[i] = "failure"

\* the name of the directory that holds the item
ParentName(i) == BaseName(ArchiveDir(i))

\* the source extension of the policy of the item's parent directory
PolicySource(i) == parent_dir_compress[ParentName(i)][1]

\* the item is a regular file with no archive extension
PlainFile(i) == ExtOf(i) \notin Range(archive_types) /\ files[i] \notin fsDirs

\* process_rom returned (input, input) for item i and changed nothing
NoOp(i) ==
    /\ Succeeded(i)
    /\ task[i].result = << files[i], files[i] >>
    /\ task[i].msg = "No changes made"
    /\ task[i].touched = {} /\ removed[i] = {}

(* C12: for every regular file with no archive extension whose extension   *)
(* is not the source extension of its parent directory's policy, a file in *)
(* a policy-named directory included, process_rom changes nothing on disk, *)
(* returns (path, path) and reports that no changes were made.             *)
C12_NonSourceFileIsNoOp ==
    \A i \in Items :
        (/\ PlainFile(i)
         /\ ParentName(i) \in DOMAIN parent_dir_compress => ExtOf(i) # PolicySource(i)
         /\ Terminal(task[i])) => NoOp(i)

\* the path compress_zstd writes for file f
Zst(f) == f \o << "." >> \o s_zst

(* C13: a regular .iso file whose parent directory is xbox360 is selected  *)
(* for compression, the compress step completes without error and leaves   *)
(* <file>.zst on disk, process_rom returns that path as the final path,    *)
(* and under clean_up the .iso is deleted, with the .zst present.          *)
C13_IsoUnderXbox360Compressed ==
    \A i \in Items :
        (/\ PlainFile(i)
         /\ ExtOf(i) = s_iso
         /\ ParentName(i) = s_xbox360
         /\ Terminal(task[i])) =>
            /\ task[i].compress_files = << files[i] >>
            /\ Succeeded(i)
            /\ Zst(files[i]) \in fsFiles
            /\ task[i].result = << files[i], Zst(files[i]) >>
            /\ clean_up => files[i] \notin fsFiles /\ files[i] \in removed[i]

(* C15: once a step of an item's pipeline has raised, the item is failed   *)
(* for good: its locals never change again, it writes, renames and deletes *)
(* nothing more (no remaining candidate is compressed, no source or        *)
(* archive deleted, nothing retried), every later change on disk is the    *)
(* step of an item that has not raised, and process_rom has returned no    *)
(* (input, final) pair for it.                                             *)
C15_NothingAfterRaise ==
    /\ [](\A i \in Items : task[i].error # "" => Failed(i) /\ task[i].result = None)
    /\ [][/\ \A i \in Items :
                task[i].error # "" => task'[i] = task[i] /\ removed'[i] = removed[i]
          /\ (fsFiles' # fsFiles \/ fsDirs' # fsDirs) =>
                \E j \in Items : task[j].error = "" /\ task'[j] # task[j]]_vars

\* under clean_up the first of two candidates failed to compress and the
\* batch was decided with the second never tried and both still on disk
C15_Witness ==
    /\ clean_up /\ Decided
    /\ \E i \in Items :
          /\ Failed(i) /\ task[i].at = "compress"
          /\ task[i].k < Len(task[i].compress_files)
          /\ Range(task[i].compress_files) \subseteq fsFiles

\* the path the item has once its extraction, if any, is over
PathBeforeCompress(i) == IF ExtractionReturned(i) THEN task[i].output ELSE files[i]

NoSourceFiles(i) ==
    ~\E f \in fsFiles : Under(f, files[i]) /\ endswith(f, << "." >> \o PolicySource(i))

(* C17: a non-archive item with no policy for its parent directory, or a   *)
(* directory under a policy-named parent that holds no file of the source  *)
(* extension, never fails and changes nothing on disk; process_rom returns *)
(* (input, input) and reports that no changes were made, never that the    *)
(* rom was prepared.                                                       *)
C17_NothingToDoIsNoOp ==
    \A i \in Items :
        (/\ ExtOf(i) \notin Range(archive_types)
         /\ \/ ParentName(i) \notin DOMAIN parent_dir_compress
            \/ files[i] \in fsDirs /\ NoSourceFiles(i)) =>
            /\ ~Failed(i)
            /\ task[i].touched = {} /\ removed[i] = {}
            /\ task[i].msg # "Prepared rom"
            /\ Terminal(task[i]) => NoOp(i)

\* a file without a policy and a policy directory without candidates, done
C17_Witness ==
    \E i, j \in Items :
        /\ PlainFile(i) /\ ParentName(i) \notin DOMAIN parent_dir_compress /\ NoOp(i)
        /\ files[j] \in fsDirs /\ ParentName(j) \in DOMAIN parent_dir_compress
        /\ NoSourceFiles(j) /\ NoOp(j)

(* C18: for every filtered member set of more than one entry, the common   *)
(* prefix that the layout is decided on is empty or ends in "/", is a      *)
(* prefix of every filtered member, and is made of complete path segments: *)
(* it is the members' shared leading directories, each followed by "/".    *)
C18_PrefixOfWholeSegments ==
    \A i \in Items :
        LET ef == Filtered(i)
            p  == task[i].common
        IN  /\ p # None => Len(ef) > 1
            /\ (Len(ef) > 1 /\ task[i].extract_files # << >>) =>
                  /\ p # None
                  /\ p = << >> \/ p[Len(p)] = "/"
                  /\ \A j \in 1..Len(ef) : startswith(ef[j], p)
                  /\ p = IF SharedDirs(ef) = << >> THEN << >>
                         ELSE join("/", SharedDirs(ef)) \o << "/" >>

\* a prefix was cut back to the last "/" and a directory was left of it,
\* as roms/Game is cut to roms/
C18_Witness ==
    \E i \in Items :
        /\ Truthy(task[i].common)
        /\ Len(commonprefix(Filtered(i))) > Len(task[i].common)

----------------------------------------------------------------------------
(* The same program on archives that share a directory or a base name, and *)
(* on an archive whose base name begins with "."                           *)

Path_xbox_a_zip == << "/" >> \o s_xbox360 \o << "/", "a", "." >> \o s_zip
Path_xbox_a_7z  == << "/" >> \o s_xbox360 \o << "/", "a", "." >> \o s_7z
Path_xbox_b_zip == << "/" >> \o s_xbox360 \o << "/", "b", "." >> \o s_zip
Path_l_b_zip    == << "/", "l", "/", "b", "." >> \o s_zip
Path_xbox_l_dot_g_zip ==
    << "/" >> \o s_xbox360 \o << "/", "l", "/", ".", "g", "." >> \o s_zip

SharedPaths == << Path_xbox_a_zip, Path_xbox_a_7z, Path_xbox_b_zip, Path_l_b_zip >>

\* the member lists of the archives of a batch of two
SharedMembers ==
    {<< MemberPool[1] >>,
     << MemberPool[4] >>,
     << MemberPool[1], MemberPool[2] >>,
     << MemberPool[4], MemberPool[5] >>,
     << MemberPool[6], MemberPool[7] >>}

\* two sound archives at different paths, or one archive named .g.zip with
\* any members of the pool
SharedBatches ==
    {<< FileItem(SharedPaths[ab[1]], m, "none"), FileItem(SharedPaths[ab[2]], n, "none") >> :
        ab \in {q \in (1..Len(SharedPaths)) \X (1..Len(SharedPaths)) : q[1] < q[2]},
        m \in SharedMembers, n \in SharedMembers}
    \cup {<< FileItem(Path_xbox_l_dot_g_zip, Pick(S), "none") >> :
             S \in {T \in SUBSET (1..Len(MemberPool)) : Cardinality(T) <= MaxMembers}}

InitShared == \E B \in SharedBatches : InitBatch(B) /\ ignore = default_ignore

SpecShared == InitShared /\ [][Next]_vars

\* directories a and b are different and neither lies inside the other
Apart(a, b) == a # b /\ ~Under(a, b) /\ ~Under(b, a)

(* C14, as stated: for any two archives at different paths that are        *)
(* processed concurrently, the sets of paths their pipelines create,       *)
(* rename or remove are disjoint.                                          *)
C14_AsStated ==
    \A i, j \in Items :
        (IsArchive(i) /\ IsArchive(j) /\ files[i] # files[j]) =>
            task[i].touched \cap task[j].touched = {}

(* C14, amended: for any two archives that lie in different directories,   *)
(* neither inside the other, the sets of paths their pipelines create,     *)
(* rename or remove are disjoint in every interleaving.                    *)
C14_DisjointAcrossDirectories ==
    \A i, j \in Items :
        (IsArchive(i) /\ IsArchive(j) /\ Apart(ArchiveDir(i), ArchiveDir(j))) =>
            task[i].touched \cap task[j].touched = {}

\* two archives in different directories ran at the same time and each
\* wrote, renamed and removed paths
C14_Witness ==
    /\ max_workers = 2 /\ clean_up /\ Decided
    /\ \E i, j \in Items :
          /\ IsArchive(i) /\ IsArchive(j) /\ Apart(ArchiveDir(i), ArchiveDir(j))
          /\ Cardinality(task[i].touched) >= 3 /\ Cardinality(task[j].touched) >= 3
          /\ files[i] \in task[i].touched /\ files[j] \in task[j].touched

\* the archive's base name begins with "."
DotNamed(i) == BaseName(files[i])[1] = "."

\* what C19 states of the path that the extraction of item i returned
ReturnedDirectChild(i) ==
    LET out == task[i].output
    IN  /\ join("/", DirSegs(out)) = ArchiveDir(i)
        /\ BaseName(out) # << >>
        /\ parent_dir_name(out) = ParentName(i)
        /\ \A f \in Range(task[i].compress_files) : f = out \/ Under(f, out)

----------------------------------------------------------------------------
(* extract_roms called with directories, and called again in the same      *)
(* process: the list of items is built from the arguments and the disk     *)

\* [join(d, f) for f in os.listdir(d) if os.path.isfile(join(d, f))]: the
\* regular files directly inside d (lines 267-269, without their order)
listdir_files(F, d) == {f \in F : os_path_dirname(f) = Norm(d)}

\* every list the loops of lines 266-269 may append for the directories ds:
\* directory after directory, the files of each in the order os.listdir
\* yields them
RECURSIVE Listings(_, _)
Listings(F, ds) ==
    IF ds = << >> THEN {<< >>}
    ELSE {o \o rest : o \in Orders(listdir_files(F, ds[1])),
                      rest \in Listings(F, Tail(ds))}

\* what the backend of the archive at path lists
ContentOf(path) ==
    IF \E k \in 1..Len(Catalogue) : Catalogue[k].path = path
    THEN LET k == CHOOSE k \in 1..Len(Catalogue) : Catalogue[k].path = path
         IN  [names |-> Catalogue[k].names, fault |-> Catalogue[k].fault]
    ELSE [names |-> << >>, fault |-> "none"]

Path_l   == << "/", "l" >>
Path_n   == << "/", "n" >>
Path_o   == << "/", "o" >>
Path_xbox == << "/" >> \o s_xbox360

\* the dirs argument of the calls
CallDirs ==
    {<< Path_n >>, << Path_l >>, << Path_xbox >>, << Path_l, Path_n >>, << Path_o, Path_xbox >>}

\* the files argument of the calls: left out, or a list written in the call
CallFiles ==
    {[omitted |-> TRUE, files |-> << >>],
     [omitted |-> FALSE, files |-> << >>],
     [omitted |-> FALSE, files |-> << Path_m_h_7z >>]}

\* the library on disk, the process started, the first call entered
InitCalls ==
    /\ fsFiles = UNION {Catalogue[k].tree : k \in 1..Len(Catalogue)}
    /\ fsDirs = UNION {Catalogue[k].dirs \cup UNION {Ancestors(f) : f \in Catalogue[k].tree}
                          : k \in 1..Len(Catalogue)}
    /\ files = << >>
    /\ archive = << >>
    /\ task = << >>
    /\ removed = << >>
    /\ ignore = default_ignore
    /\ clean_up \in BOOLEAN
    /\ max_workers = 1
    /\ main = [pc |-> "expand", n |-> 0, k |-> 1, success |-> 0, reported |-> -1,
               outcome |-> << >>]
    /\ files_default = << >>
    /\ \E d \in CallDirs, a \in CallFiles :
          call = [n |-> 1, dirs |-> d, omitted |-> a.omitted, files |-> a.files]

\* lines 256-271: files is the argument, or the default list when the
\* argument is left out; the files of the directories are appended to that
\* same list object, and the items are the elements of the list
BuildList ==
    /\ main.pc = "expand"
    /\ LET arg == IF call.omitted THEN files_default ELSE call.files
       IN  IF Len(call.dirs) = 0 /\ Len(arg) = 0
           THEN /\ main' = [main EXCEPT !.pc = "raised"]
                /\ UNCHANGED <<files, archive, task, removed, files_default>>
           ELSE \E add \in Listings(fsFiles, call.dirs) :
                   LET fl == arg \o add
                   IN  /\ files' = fl
                       /\ files_default' = IF call.omitted THEN fl ELSE files_default
                       /\ archive' = [i \in 1..Len(fl) |-> ContentOf(fl[i])]
                       /\ task' = [i \in 1..Len(fl) |-> NewTask(fl[i])]
                       /\ removed' = [i \in 1..Len(fl) |-> {}]
                       /\ main' = [pc |-> IF Len(fl) = 0 THEN "collect" ELSE "submit",
                                   n |-> 0, k |-> 1, success |-> 0, reported |-> -1,
                                   outcome |-> [i \in 1..Len(fl) |-> "none"]]
    /\ UNCHANGED <<fsFiles, fsDirs, ignore, clean_up, max_workers, call>>

\* the call is over (it returned or raised) and the process calls
\* extract_roms again with the same arguments
CallAgain ==
    /\ Decided
    /\ call.n < MaxCalls
    /\ call' = [call EXCEPT !.n = call.n + 1]
    /\ main' = [main EXCEPT !.pc = "expand"]
    /\ UNCHANGED <<fsFiles, fsDirs, files, archive, ignore, clean_up, max_workers,
                   task, removed, files_default>>

NextCalls ==
    \/ BuildList
    \/ CallAgain
    \/ Next

SpecCalls == InitCalls /\ [][NextCalls]_vars

\* the list has just been built and no item is submitted yet
ListBuilt == main.pc = "submit" /\ main.n = 0

(* C20: the items scheduled by a call of extract_roms are the files        *)
(* argument followed by the regular files directly inside each directory   *)
(* of dirs, as the disk is at the call; earlier calls in the same process  *)
(* have no part in it: a call that passes only dirs schedules each such    *)
(* file once, the second time as the first.                                *)
C20_ListFromArgumentsAndDisk ==
    ListBuilt =>
        /\ \E add \in Listings(fsFiles, call.dirs) : files = call.files \o add
        /\ call.files = << >> =>
              \A a, b \in 1..Len(files) : files[a] = files[b] => a = b

====
